---- MODULE Spec2Model ----
(***************************************************************************)
(* AllReduceScatterCreator::Run                                            *)
(* (tensorflow/compiler/xla/service/gpu/gpu_all_reduce_scatter_creator.cc) *)
(* as a state machine over an HLO module.                                  *)
(*                                                                         *)
(* The module is an arena of instructions addressed by stable handles      *)
(* (positions in the sequence instr).  live is the set of handles that are *)
(* still owned by a computation, root maps every computation to its root.  *)
(* The scalar subgraph that feeds a dynamic-slice start index is kept as a *)
(* descriptor of the recognised shapes (constant zero, id * c, table       *)
(* lookup, two-level table lookup) and is evaluated per device by          *)
(* EvalOffset.                                                             *)
(***************************************************************************)
EXTENDS Integers, Sequences, FiniteSets, TLC

VARIABLES
    config,             \* HloModuleConfig: replica_count, num_partitions
    fusion,             \* computation -> is it a fusion computation
    instr,              \* arena: handle -> instruction
    live,               \* handles owned by their computation
    root,               \* computation -> root instruction
    pc,                 \* position inside Run
    status,             \* "ok" | "error": the Status of Run
    ret,                \* value returned by the last Run that ended ok
    next_channel_id,    \* Run's local counter
    changed,            \* Run's local flag
    computations,       \* computations still to be walked (outer for)
    computation,        \* the computation being walked
    postorder,          \* rest of the instruction snapshot (inner for)
    cur,                \* locals of the rewrite in flight: ar, ds, ars, ...
    runs,               \* number of calls of Run started
    pre,                \* the module as it was when the current Run started
    log,                \* history: one record per rewrite begun
    walk                \* history: one record per snapshot walked

vars == << config, fusion, instr, live, root, pc, status, ret, next_channel_id,
           changed, computations, computation, postorder, cur, runs, pre, log,
           walk >>

-----------------------------------------------------------------------------
(* Bounds of the model.                                                    *)

\* number of instructions generated after the parameter of the entry
\* computation
ChainLen == 4

\* number of calls of Run on the same module
MaxRuns == 2

-----------------------------------------------------------------------------
(* Small helpers.                                                          *)

Range(s) == { s[i] : i \in DOMAIN s }

Max(a, b) == IF a >= b THEN a ELSE b

Min(a, b) == IF a <= b THEN a ELSE b

RECURSIVE Prod(_, _)
\* product of the first n entries of a dimension list
Prod(dims, n) == IF n = 0 THEN 1 ELSE dims[n] * Prod(dims, n - 1)

ElementsIn(shape) == Prod(shape, Len(shape))

Iota(n) == [ i \in 1..n |-> i - 1 ]

-----------------------------------------------------------------------------
(* Instructions.                                                           *)

NoOffset == [ kind |-> "zero", idx |-> "none", pcount |-> 0,
              table |-> << >>, table2 |-> << >>, mul |-> 0 ]

\* All instructions share one record type; fields an opcode does not have
\* keep their default.
Inst(op, comp, shape, operands) ==
    [ op |-> op, comp |-> comp, shape |-> shape, operands |-> operands,
      replica_groups |-> << >>, channel_id |-> 0,
      use_global_device_ids |-> FALSE, constrain_layout |-> FALSE,
      to_apply |-> 0, scatter_dimension |-> -1, offsets |-> << >> ]

Users(I, L, i) == { j \in L : i \in Range(I[j].operands) }

-----------------------------------------------------------------------------
(* Group / index model.                                                    *)

\* 0-based position of x in seq s, -1 when absent
IndexOf(s, x) ==
    IF \E k \in DOMAIN s : s[k] = x
    THEN (CHOOSE k \in DOMAIN s : s[k] = x /\ \A l \in 1..(k - 1) : s[l] # x) - 1
    ELSE -1

\* rank of deviceId: its index in the listed order of the one group that
\* holds it; -1 when it is in no group or in more than one
rankOf(deviceId, groups) ==
    LET holders == { g \in DOMAIN groups : deviceId \in Range(groups[g]) }
    IN  IF Cardinality(holders) = 1
        THEN IndexOf(groups[CHOOSE g \in holders : TRUE], deviceId)
        ELSE -1

\* which id the replica groups of a collective list
Mode(a) ==
    IF a.channel_id = 0 THEN "replica"
    ELSE IF a.use_global_device_ids THEN "global" ELSE "partition"

\* number of ids of the kind the groups list
IdCount(a, cfg) ==
    CASE Mode(a) = "replica"   -> cfg.replica_count
      [] Mode(a) = "partition" -> cfg.replica_count
      [] Mode(a) = "global"    -> cfg.replica_count * cfg.num_partitions

\* an empty group list is one implicit group of every participant
EffectiveGroups(a, cfg) ==
    IF a.replica_groups = << >> THEN << Iota(IdCount(a, cfg)) >>
    ELSE a.replica_groups

Devices(cfg) ==
    (0..(cfg.replica_count - 1)) \X (0..(cfg.num_partitions - 1))

globalDeviceId(d, cfg) == d[1] * cfg.num_partitions + d[2]

\* rank of device d = <<replicaId, partitionId>> among the participants of
\* collective a: without channel id the groups hold replica ids; with
\* channel id and no global ids a group holds every partition of each of
\* its replicas; with global ids the groups hold global device ids
DeviceRank(a, cfg, d) ==
    LET groups == EffectiveGroups(a, cfg)
    IN  CASE Mode(a) = "replica"   -> rankOf(d[1], groups)
          [] Mode(a) = "partition" ->
                IF rankOf(d[1], groups) = -1 THEN -1
                ELSE rankOf(d[1], groups) * cfg.num_partitions + d[2]
          [] Mode(a) = "global"    -> rankOf(globalDeviceId(d, cfg), groups)

LegalDevices(a, cfg) == { d \in Devices(cfg) : DeviceRank(a, cfg, d) # -1 }

-----------------------------------------------------------------------------
(* Offset subgraphs: evaluation.                                           *)

\* dynamic-slice of a one-dimensional table with size 1: the start index is
\* clamped into the table
Lookup(table, i) == table[Min(Max(i, 0), Len(table) - 1) + 1]

DeviceIndexValue(off, d) ==
    CASE off.idx = "rid" -> d[1]
      [] off.idx = "pid" -> d[2]
      [] off.idx = "gid" -> d[1] * off.pcount + d[2]
      [] OTHER           -> 0

Scaled(off, v) == IF off.mul = 0 THEN v ELSE v * off.mul

\* value of the start-index subgraph off on device d
EvalOffset(off, d) ==
    CASE off.kind = "affine"   -> DeviceIndexValue(off, d) * off.mul
      [] off.kind = "lookup"   ->
            Scaled(off, Lookup(off.table, DeviceIndexValue(off, d)))
      [] off.kind = "twolevel" ->
            Scaled(off, Lookup(off.table2,
                               Lookup(off.table, DeviceIndexValue(off, d))))
      [] OTHER                 -> 0

-----------------------------------------------------------------------------
(* Shard-offset analyzer and pattern matcher (MatchAllReduceScatter).      *)

\* all replica groups have the same size
UniformGroups(a) ==
    \A g \in DOMAIN a.replica_groups :
        Len(a.replica_groups[g]) = Len(a.replica_groups[1])

\* participants of one group of the collective
GroupSize(a, cfg) ==
    CASE Mode(a) = "partition" -> cfg.num_partitions
      [] OTHER -> Len(EffectiveGroups(a, cfg)[1])

\* ranks that the groups give to partition id p, over every group
PartitionRanks(a, cfg, p) ==
    LET groups == EffectiveGroups(a, cfg)
    IN  { i - 1 : i \in { k \in 1..Len(groups[1]) :
            \E g \in DOMAIN groups :
                k <= Len(groups[g]) /\ groups[g][k] % cfg.num_partitions = p } }

\* orthogonality rule: every group induces the same partition -> rank map
OrthogonalReplicas(a, cfg) ==
    \A p \in 0..(cfg.num_partitions - 1) :
        Cardinality(PartitionRanks(a, cfg, p)) = 1

\* the rank the groups give to id (an id of the kind idx), -1 when the
\* offset cannot be keyed by that kind of id
MapId(a, cfg, idx, id) ==
    CASE Mode(a) = "replica" /\ idx = "rid" ->
            rankOf(id, EffectiveGroups(a, cfg))
      [] Mode(a) = "partition" /\ idx = "pid" ->
            IF a.replica_groups # << >>
               /\ \A g \in DOMAIN a.replica_groups : Len(a.replica_groups[g]) = 1
            THEN id ELSE -1
      [] Mode(a) = "global" /\ idx = "gid" ->
            rankOf(id, EffectiveGroups(a, cfg))
      [] Mode(a) = "global" /\ idx = "pid" ->
            IF OrthogonalReplicas(a, cfg)
            THEN CHOOSE r \in PartitionRanks(a, cfg, id) : TRUE
            ELSE -1
      [] OTHER -> -1

\* number of ids of the kind idx
IndexCount(cfg, idx) ==
    CASE idx = "rid" -> cfg.replica_count
      [] idx = "pid" -> cfg.num_partitions
      [] idx = "gid" -> cfg.replica_count * cfg.num_partitions
      [] OTHER       -> 0

\* a table holds raw ranks when a multiply by the shard size follows it and
\* pre-scaled offsets when none does
TableScale(off, shard_size) == IF off.mul = 0 THEN shard_size ELSE 1

\* does the start-index subgraph off equal rank * shard_size, decided from
\* its structure
IsPerIdOffset(a, cfg, off, shard_size, group_size) ==
    LET n == IndexCount(cfg, off.idx)
        ids == 0..(n - 1)
        mulOk == off.mul = 0 \/ off.mul = shard_size
        idOk == (off.idx = "gid") => (off.pcount = cfg.num_partitions)
    IN  CASE off.kind = "affine" ->
                /\ off.mul = shard_size
                /\ idOk
                /\ \A id \in ids : MapId(a, cfg, off.idx, id) = id
          [] off.kind = "lookup" ->
                /\ mulOk
                /\ idOk
                /\ Len(off.table) = n
                /\ \A id \in ids :
                     /\ MapId(a, cfg, off.idx, id) # -1
                     /\ off.table[id + 1] =
                          MapId(a, cfg, off.idx, id) * TableScale(off, shard_size)
          [] off.kind = "twolevel" ->
                /\ mulOk
                /\ idOk
                /\ Len(off.table) = n
                /\ \A id \in ids :
                     /\ MapId(a, cfg, off.idx, id) # -1
                     /\ off.table[id + 1] = MapId(a, cfg, off.idx, id)
                /\ Len(off.table2) = group_size
                /\ \A k \in 0..(group_size - 1) :
                     off.table2[k + 1] = k * TableScale(off, shard_size)
          [] OTHER -> FALSE

NoSpec == [ matched |-> FALSE, dynamic_slice |-> 0, split_dim |-> -1,
            group_size |-> 0 ]

\* dimensions (1-based) on which the slice is smaller than its operand
SplitDims(slice_sizes, operand_shape) ==
    { j \in DOMAIN operand_shape : slice_sizes[j] # operand_shape[j] }

\* dimension of from that the reshape from -> to leaves as dimension j of to
UnmodifiedDims(from, to, j) ==
    { i \in DOMAIN from : from[i] = to[j] /\ Prod(from, i - 1) = Prod(to, j - 1) }

\* the dynamic-slice reached from a, directly or through one reshape; 0 when
\* there is none
SliceUser(I, L, a) ==
    LET us == Users(I, L, a)
    IN  IF Cardinality(us) # 1 THEN 0
        ELSE LET u == CHOOSE x \in us : TRUE
             IN  IF I[u].op = "dynamic-slice" THEN u
                 ELSE IF I[u].op = "reshape" /\ Cardinality(Users(I, L, u)) = 1
                 THEN LET v == CHOOSE x \in Users(I, L, u) : TRUE
                      IN  IF I[v].op = "dynamic-slice" THEN v ELSE 0
                 ELSE 0

MatchAllReduceScatter(I, L, a, cfg) ==
    LET d == SliceUser(I, L, a)
    IN  IF d = 0 \/ ~UniformGroups(I[a]) THEN NoSpec
        ELSE
        LET src == I[d].operands[1]
            js  == SplitDims(I[d].shape, I[src].shape)
        IN  IF Cardinality(js) # 1 THEN NoSpec
            ELSE
            LET j  == CHOOSE x \in js : TRUE
                is == IF src = a THEN {j}
                      ELSE UnmodifiedDims(I[a].shape, I[src].shape, j)
            IN  IF is = {} THEN NoSpec
                ELSE
                LET i == CHOOSE x \in is : TRUE
                    shard_size == I[d].shape[j]
                    group_size == I[a].shape[i] \div shard_size
                IN  IF /\ I[a].shape[i] = group_size * shard_size
                       /\ group_size = GroupSize(I[a], cfg)
                       /\ IsPerIdOffset(I[a], cfg, I[d].offsets[j],
                                        shard_size, group_size)
                    THEN [ matched |-> TRUE, dynamic_slice |-> d,
                           split_dim |-> i - 1, group_size |-> group_size ]
                    ELSE NoSpec

-----------------------------------------------------------------------------
(* Modules the pass is run on.                                             *)

Config(nr, np) == [ replica_count |-> nr, num_partitions |-> np ]

Affine(idx, mul) == [ NoOffset EXCEPT !.kind = "affine", !.idx = idx, !.mul = mul ]

TableLookup(idx, table, mul) ==
    [ NoOffset EXCEPT !.kind = "lookup", !.idx = idx, !.table = table,
                      !.mul = mul ]

TwoLevelLookup(idx, table, table2, mul) ==
    [ NoOffset EXCEPT !.kind = "twolevel", !.idx = idx, !.table = table,
                      !.table2 = table2, !.mul = mul ]

\* %gid = add(multiply(%rid, %pcount), %pid)
WithPCount(off, pcount) == [ off EXCEPT !.pcount = pcount ]

\* attributes of an all-reduce: replica_groups, channel_id (0: none),
\* use_global_device_ids
Attrs(groups, channel, global) ==
    [ replica_groups |-> groups, channel_id |-> channel,
      use_global_device_ids |-> global ]

AllReduce(comp, operand, shape, attrs) ==
    [ Inst("all-reduce", comp, shape, << operand >>) EXCEPT
        !.replica_groups = attrs.replica_groups,
        !.channel_id = attrs.channel_id,
        !.use_global_device_ids = attrs.use_global_device_ids,
        !.to_apply = 1 ]

\* dynamic-slice of operand to slice_sizes; off is the start index on
\* dimension dim (1-based), the other start indices are the constant zero
DynamicSlice(comp, operand, slice_sizes, dim, off) ==
    [ Inst("dynamic-slice", comp, slice_sizes, << operand >>) EXCEPT
        !.offsets = [ j \in DOMAIN slice_sizes |->
                        IF j = dim THEN off ELSE NoOffset ] ]

\* the reduction computation of the tests: %a, %b, ROOT %add
SumComputation ==
    << Inst("parameter", 1, << >>, << >>),
       Inst("parameter", 1, << >>, << >>),
       Inst("add", 1, << >>, << 1, 2 >>) >>

SumComp == 1
FusedComp == 2
EntryComp == 3

\* ---- chains: %param -> n1 -> n2 -> ... in the entry computation, every
\* node an all-reduce, a reshape or a dynamic-slice of the node before it

ChainConfig == Config(2, 2)

ChainParamShape == << 8, 4 >>

\* reshape of the trailing dimensions, the first one is left alone
ReshapeOf(shape) ==
    IF Len(shape) = 2 THEN << shape[1], shape[2] \div 2, 2 >>
    ELSE << shape[1], shape[2] * shape[3] >>

\* channel id of the next cross-partition all-reduce of a chain: 0 in a
\* module without partitioning
ChainChannel(m, cross) ==
    IF cross
    THEN 1 + Cardinality({ k \in DOMAIN m : m[k].op = "all-reduce" })
    ELSE 0

ChainAttrs(m, cross) ==
    IF cross THEN Attrs(<< << 0 >>, << 1 >> >>, ChainChannel(m, cross), FALSE)
    ELSE Attrs(<< >>, 0, FALSE)

\* the slice of the first dimension into GroupSize shards, taken at
\* id * shard_size
ChainSlice(m, cross) ==
    LET prev == Len(m)
        shape == m[prev].shape
        shard_size == shape[1] \div 2
    IN  DynamicSlice(EntryComp, prev, [ shape EXCEPT ![1] = shard_size ], 1,
                     Affine(IF cross THEN "pid" ELSE "rid", shard_size))

ChainCandidates(m, cross) ==
    LET prev == Len(m)
        shape == m[prev].shape
    IN  { AllReduce(EntryComp, prev, shape, ChainAttrs(m, cross)),
          Inst("reshape", EntryComp, ReshapeOf(shape), << prev >>) }
        \cup (IF shape[1] % 2 = 0 THEN { ChainSlice(m, cross) } ELSE {})

RECURSIVE Chains(_, _)
Chains(k, cross) ==
    IF k = 0
    THEN { SumComputation \o
           << Inst("parameter", EntryComp, ChainParamShape, << >>) >> }
    ELSE UNION { { Append(m, n) : n \in ChainCandidates(m, cross) } :
                 m \in Chains(k - 1, cross) }

\* a chain, optionally with a second user (side) of one of its nodes, and
\* with the last or the last but one chain node as root
ChainModules ==
    { [ config |-> ChainConfig,
        fusion |-> (SumComp :> FALSE) @@ (EntryComp :> FALSE),
        instr  |-> IF side = 0 THEN m
                   ELSE Append(m, Inst("negate", EntryComp,
                                       m[4 + side].shape, << 4 + side >>)),
        root   |-> (SumComp :> 3) @@ (EntryComp :> 4 + ChainLen - back) ] :
      m \in Chains(ChainLen, TRUE) \cup Chains(ChainLen, FALSE),
      side \in 0..ChainLen, back \in 0..1 }

\* ---- the modules of the tests: %param -> %all-reduce [-> %reshape.1] ->
\* ROOT %dynamic-slice, and variations of their groups and tables

\* a fusion computation and the fusion instruction of the entry computation
\* that calls it
FusedComputation(param) ==
    << Inst("parameter", FusedComp, << >>, << >>),
       Inst("negate", FusedComp, << >>, << 4 >>),
       Inst("fusion", EntryComp, << >>, << param >>) >>

TestModule(cfg, shape, attrs, reshape_shape, slice_sizes, dim, off, fused) ==
    LET head == IF fused THEN SumComputation \o FusedComputation(7)
                ELSE SumComputation
        param == Len(head) + 1
        body == << Inst("parameter", EntryComp, shape, << >>),
                   AllReduce(EntryComp, param, shape, attrs) >>
        mid == IF reshape_shape = << >> THEN << >>
               ELSE << Inst("reshape", EntryComp, reshape_shape, << param + 1 >>) >>
        src == param + 1 + Len(mid)
    IN  [ config |-> cfg,
          fusion |-> IF fused
                     THEN (SumComp :> FALSE) @@ (FusedComp :> TRUE)
                          @@ (EntryComp :> FALSE)
                     ELSE (SumComp :> FALSE) @@ (EntryComp :> FALSE),
          instr  |-> head \o body \o mid
                     \o << DynamicSlice(EntryComp, src, slice_sizes, dim, off) >>,
          root   |-> IF fused
                     THEN (SumComp :> 3) @@ (FusedComp :> 5) @@ (EntryComp :> src + 1)
                     ELSE (SumComp :> 3) @@ (EntryComp :> src + 1) ]

Shape3 == << 32, 8, 128 >>

NoGroups == Attrs(<< >>, 0, FALSE)

Subgroups == << << 1, 3, 2, 0 >>, << 4, 5, 6, 7 >> >>

\* groups of global device ids on 2 replicas x 4 partitions
GlobalGroupLists ==
    { << << 1, 3, 2, 0 >>, << 5, 7, 6, 4 >> >>,
      << << 1, 3, 2, 0 >>, << 7, 5, 6, 4 >> >>,
      << << 0, 1, 2, 3 >>, << 4, 5, 6, 7 >> >>,
      << << 5, 3, 6, 0 >>, << 1, 7, 2, 4 >> >>,
      << << 1, 3, 2, 0 >>, << 5, 7, 6 >> >> }

PidTables ==
    { << 3, 0, 2, 1 >>, << 0, 1, 2, 3 >>, << 3, 0, 2, 2 >>, << 3, 0, 2 >> }

\* tables of 8 entries looked up by the replica id and multiplied by 4
RidTables ==
    { Iota(8), << 0, 1, 2, 3, 4, 5, 6, 8 >>, << 0, 1, 2, 3, 4, 5, 6, 6 >>,
      << 7, 6, 5, 4, 3, 2, 1, 0 >>, Iota(7) }

TestModules ==
    LET As(fused) ==
          \* AllReplicas, AllReplicasWrongOffsets, AllReplicasIotaTable
          { TestModule(Config(8, np), Shape3, NoGroups, << >>, << 4, 8, 128 >>, 1,
                       TableLookup("rid", t, 4), fused) :
            np \in {1, 2}, t \in RidTables }
        Bs(fused) ==
          { \* AllReplicasWithReshape
            TestModule(Config(8, 1), Shape3, NoGroups, << 32, 16, 64 >>,
                       << 4, 16, 64 >>, 1, TableLookup("rid", Iota(8), 4), fused),
            \* AllReplicasWithReshapeSplitDimModified
            TestModule(Config(8, 1), << 336, 1024 >>, NoGroups, << 4, 84, 1024 >>,
                       << 4, 84, 128 >>, 3, Affine("rid", 128), fused),
            \* a reshape that changes the dimension that is split
            TestModule(Config(8, 1), Shape3, NoGroups, << 16, 16, 128 >>,
                       << 2, 16, 128 >>, 1, Affine("rid", 2), fused),
            \* AllReplicasDim2
            TestModule(Config(8, 1), Shape3, NoGroups, << >>, << 32, 8, 16 >>, 3,
                       Affine("rid", 16), fused),
            \* the slice of the middle dimension
            TestModule(Config(8, 1), Shape3, NoGroups, << >>, << 32, 1, 128 >>, 2,
                       Affine("rid", 1), fused),
            \* a multiplier that is not the shard size
            TestModule(Config(8, 1), Shape3, NoGroups, << >>, << 4, 8, 128 >>, 1,
                       Affine("rid", 8), fused),
            \* a shard that is not 1/8 of the dimension
            TestModule(Config(8, 1), Shape3, NoGroups, << >>, << 8, 8, 128 >>, 1,
                       Affine("rid", 8), fused),
            \* the partition id where replicas are reduced
            TestModule(Config(8, 2), Shape3, NoGroups, << >>, << 4, 8, 128 >>, 1,
                       Affine("pid", 4), fused),
            \* a table of offsets, no multiply
            TestModule(Config(8, 1), Shape3, NoGroups, << >>, << 4, 8, 128 >>, 1,
                       TableLookup("rid", << 0, 4, 8, 12, 16, 20, 24, 28 >>, 0),
                       fused),
            \* id * shard with groups that are not listed in id order
            TestModule(Config(8, 2), Shape3, Attrs(Subgroups, 0, FALSE), << >>,
                       << 8, 8, 128 >>, 1, Affine("rid", 8), fused),
            \* SubgroupsGlobals
            TestModule(Config(2, 4), Shape3, Attrs(Subgroups, 1, TRUE), << >>,
                       << 8, 8, 128 >>, 1,
                       WithPCount(TwoLevelLookup("gid",
                           << 3, 0, 2, 1, 0, 1, 2, 3 >>, << 0, 8, 16, 24 >>, 0), 4),
                       fused),
            \* the same on 4 replicas x 2 partitions: %pcount is not the
            \* partition count
            TestModule(Config(4, 2), Shape3, Attrs(Subgroups, 1, TRUE), << >>,
                       << 8, 8, 128 >>, 1,
                       WithPCount(TwoLevelLookup("gid",
                           << 3, 0, 2, 1, 0, 1, 2, 3 >>, << 0, 8, 16, 24 >>, 0), 4),
                       fused) }
        Cs(fused) ==
          \* SubgroupedReplicas
          { TestModule(Config(8, 2), Shape3, Attrs(Subgroups, 0, FALSE), << >>,
                       << 8, 8, 128 >>, 1,
                       TwoLevelLookup("rid", t, << 0, 8, 16, 24 >>, 0), fused) :
            t \in { << 3, 0, 2, 1, 0, 1, 2, 3 >>, << 0, 1, 2, 3, 0, 1, 2, 3 >> } }
        Ds(fused) ==
          \* AllPartitions
          { TestModule(Config(2, 8), Shape3, Attrs(g, 1, FALSE), << >>,
                       << 4, 8, 128 >>, 1, TableLookup("pid", Iota(8), 4), fused) :
            g \in { << << 0 >>, << 1 >> >>, << << 0, 1 >> >> } }
        Es(fused) ==
          \* SubgroupsGlobalsOrthogonalReplicas,
          \* SubgroupsGlobalsNonOrthogonalReplicas
          { TestModule(Config(2, 4), Shape3, Attrs(g, 1, TRUE), << >>,
                       << 8, 8, 128 >>, 1, TableLookup("pid", t, 8), fused) :
            g \in GlobalGroupLists, t \in PidTables }
    IN  UNION { As(f) \cup Bs(f) \cup Cs(f) \cup Ds(f) \cup Es(f) : f \in BOOLEAN }

\* constrain_layout=true on the all-reduces of a module
ConstrainLayout(m) ==
    [ m EXCEPT !.instr =
        [ i \in DOMAIN m.instr |->
            IF m.instr[i].op = "all-reduce"
            THEN [ m.instr[i] EXCEPT !.constrain_layout = TRUE ]
            ELSE m.instr[i] ] ]

\* AllReplicas, AllReplicasWithReshape and SubgroupsGlobals with all-reduces
\* whose layout is constrained
ConstrainedModules ==
    { ConstrainLayout(m) : m \in
        { TestModule(Config(8, 1), Shape3, NoGroups, << >>, << 4, 8, 128 >>, 1,
                     TableLookup("rid", Iota(8), 4), FALSE),
          TestModule(Config(8, 1), Shape3, NoGroups, << 32, 16, 64 >>,
                     << 4, 16, 64 >>, 1, TableLookup("rid", Iota(8), 4), FALSE),
          TestModule(Config(2, 4), Shape3, Attrs(Subgroups, 1, TRUE), << >>,
                     << 8, 8, 128 >>, 1,
                     WithPCount(TwoLevelLookup("gid",
                         << 3, 0, 2, 1, 0, 1, 2, 3 >>, << 0, 8, 16, 24 >>, 0), 4),
                     FALSE) } }

InitialModules == ChainModules \cup TestModules \cup ConstrainedModules

-----------------------------------------------------------------------------
(* The IR library as Run uses it.                                          *)

RECURSIVE SortedSeq(_)
\* the elements of a finite set of integers in increasing order
SortedSeq(S) ==
    IF S = {} THEN << >>
    ELSE LET x == CHOOSE y \in S : \A z \in S : y <= z
         IN  << x >> \o SortedSeq(S \ {x})

\* HloModule::MakeNonfusionComputations
MakeNonfusionComputations(F) == SortedSeq({ c \in DOMAIN F : ~F[c] })

RECURSIVE PostOrderFrom(_, _, _)
PostOrderFrom(I, todo, placed) ==
    IF todo = {} THEN placed
    ELSE LET ready == { i \in todo :
                          \A o \in Range(I[i].operands) : o \notin todo }
             x == CHOOSE y \in ready : \A z \in ready : y <= z
         IN  PostOrderFrom(I, todo \ {x}, Append(placed, x))

\* HloComputation::MakeInstructionPostOrder: every instruction of the
\* computation, operands before their users
MakeInstructionPostOrder(I, L, c) ==
    PostOrderFrom(I, { i \in L : I[i].comp = c }, << >>)

\* channel ids in use in the module
ChannelIds(I, L) == { I[i].channel_id : i \in { j \in L : I[j].channel_id # 0 } }

\* hlo_query::NextChannelId: one more than the largest channel id in use
NextChannelId(I, L) ==
    LET ids == ChannelIds(I, L)
    IN  IF ids = {} THEN 1 ELSE 1 + CHOOSE x \in ids : \A y \in ids : y <= x

\* ShapeUtil::Compatible, layouts are not modelled
Compatible(s, t) == s = t

\* HloInstruction::ReplaceAllUsesWith: every operand slot that holds old
\* holds new afterwards
ReplaceOperands(I, L, old, new) ==
    [ i \in DOMAIN I |->
        IF i \in L
        THEN [ I[i] EXCEPT !.operands =
                 [ k \in DOMAIN I[i].operands |->
                     IF I[i].operands[k] = old THEN new ELSE I[i].operands[k] ] ]
        ELSE I[i] ]

\* ... and the root of the computation moves with it
ReplaceRoot(R, old, new) ==
    [ c \in DOMAIN R |-> IF R[c] = old THEN new ELSE R[c] ]

\* HloComputation::IsSafelyRemovable: parameters of a computation that is
\* not a fusion computation stay
IsSafelyRemovable(I, F, i) == ~(I[i].op = "parameter" /\ ~F[I[i].comp])

\* the checks of HloComputation::RemoveInstruction
CanRemove(I, L, R, F, i) ==
    /\ i \in L
    /\ R[I[i].comp] # i
    /\ IsSafelyRemovable(I, F, i)
    /\ Users(I, L, i) = {}

\* the removed instruction is detached from its operands and leaves the
\* computation; its storage is kept until the module is cleaned up
Detach(I, i) == [ I EXCEPT ![i].operands = << >> ]

\* HloInstruction::HasSideEffect for the opcodes of the model
HasSideEffect(x) ==
    x.op \in {"all-reduce", "all-reduce-scatter"}
    /\ (x.channel_id # 0 \/ x.constrain_layout)

RECURSIVE RemoveUnused(_, _, _, _, _, _)
\* the worklist of HloComputation::RemoveInstructionAndUnusedOperands:
\* first is the instruction the call names
RemoveUnused(I, L, R, F, worklist, first) ==
    IF worklist = << >> THEN [ instr |-> I, live |-> L ]
    ELSE LET item == Head(worklist)
         IN  IF \/ item \notin L
                \/ Users(I, L, item) # {}
                \/ R[I[item].comp] = item
                \/ ~IsSafelyRemovable(I, F, item)
                \/ (HasSideEffect(I[item]) /\ item # first)
             THEN RemoveUnused(I, L, R, F, Tail(worklist), first)
             ELSE RemoveUnused(Detach(I, item), L \ {item}, R, F,
                               Tail(worklist) \o I[item].operands, first)

-----------------------------------------------------------------------------
(* AllReduceScatterCreator::Run.                                           *)

\* no rewrite in flight; before is the module when the last one was begun
NoRewrite(module) ==
    [ ar |-> 0, ds |-> 0, ars |-> 0, result |-> 0, reshape |-> 0,
      before |-> module ]

Module == [ instr |-> instr, live |-> live, root |-> root ]

Init ==
    \E m \in InitialModules :
        /\ config = m.config
        /\ fusion = m.fusion
        /\ instr = m.instr
        /\ live = DOMAIN m.instr
        /\ root = m.root
        /\ pc = "idle"
        /\ status = "ok"
        /\ ret = FALSE
        /\ next_channel_id = 0
        /\ changed = FALSE
        /\ computations = << >>
        /\ computation = 0
        /\ postorder = << >>
        /\ cur = NoRewrite([ instr |-> m.instr, live |-> DOMAIN m.instr,
                              root |-> m.root ])
        /\ runs = 0
        /\ pre = [ instr |-> m.instr, live |-> DOMAIN m.instr, root |-> m.root ]
        /\ log = << >>
        /\ walk = << >>

\* the inner for over a snapshot begins: nothing of it is visited yet
Snapshot(c, order) ==
    [ run |-> runs, computation |-> c, snapshot |-> order,
      submitted |-> << >>, steps |-> 0 ]

\* one more step of the loop body over the snapshot being walked
Stepped == [ walk EXCEPT ![Len(walk)].steps = @ + 1 ]

\* the loop body hands instruction a to MatchAllReduceScatter
Submitted(a) ==
    [ Stepped EXCEPT ![Len(walk)].submitted =
        Append(@, [ inst |-> a, live |-> a \in live,
                    created |-> a > Len(pre.instr) ]) ]

\* where the walk goes on when rest is what is left of the snapshot
LoopPc(rest) == IF rest = << >> THEN "computations" ELSE "instructions"

\* Run is called: the counter is seeded, the computations are listed
StartRun ==
    /\ pc \in {"idle", "done"}
    /\ status = "ok"
    /\ runs < MaxRuns
    /\ runs' = runs + 1
    /\ next_channel_id' = NextChannelId(instr, live)
    /\ changed' = FALSE
    /\ computations' = MakeNonfusionComputations(fusion)
    /\ computation' = 0
    /\ postorder' = << >>
    /\ pre' = Module
    /\ pc' = "computations"
    /\ UNCHANGED << config, fusion, instr, live, root, status, ret, cur, log >>
    /\ UNCHANGED walk

\* the outer for: the next computation and the snapshot of its post order
NextComputation ==
    /\ pc = "computations"
    /\ computations # << >>
    /\ computation' = Head(computations)
    /\ computations' = Tail(computations)
    /\ postorder' = MakeInstructionPostOrder(instr, live, Head(computations))
    /\ pc' = LoopPc(postorder')
    /\ UNCHANGED << config, fusion, instr, live, root, status, ret,
                    next_channel_id, changed, cur, runs, pre, log >>
    /\ walk' = Append(walk, Snapshot(Head(computations), postorder'))

\* return changed
Finish ==
    /\ pc = "computations"
    /\ computations = << >>
    /\ ret' = changed
    /\ pc' = "done"
    /\ UNCHANGED << config, fusion, instr, live, root, status, next_channel_id,
                    changed, computations, computation, postorder, cur, runs,
                    pre, log >>
    /\ UNCHANGED walk

\* if (instruction->opcode() != HloOpcode::kAllReduce) continue;
SkipNonAllReduce ==
    /\ pc = "instructions"
    /\ instr[Head(postorder)].op # "all-reduce"
    /\ postorder' = Tail(postorder)
    /\ pc' = LoopPc(postorder')
    /\ UNCHANGED << config, fusion, instr, live, root, status, ret,
                    next_channel_id, changed, computations, computation, cur,
                    runs, pre, log >>
    /\ walk' = Stepped

\* the call with replica_count and num_partitions handed over in each
\* other's place
ar_spec_swapped ==
    MatchAllReduceScatter(instr, live, Head(postorder),
                          Config(config.num_partitions, config.replica_count))

\* MatchAllReduceScatter(ar, config.num_partitions(), config.replica_count(),
\*   /*allow_multiple_split_dims=*/false, /*allow_intervening_reshape=*/true)
ar_spec == MatchAllReduceScatter(instr, live, Head(postorder), config)

\* the non-match ends the run with an error
NoMatchFails ==
    /\ pc = "instructions"
    /\ instr[Head(postorder)].op = "all-reduce"
    /\ ~ar_spec.matched
    /\ status' = "error"
    /\ pc' = "done"
    /\ UNCHANGED << config, fusion, instr, live, root, ret, next_channel_id,
                    changed, computations, computation, postorder, cur, runs,
                    pre, log >>
    /\ walk' = Submitted(Head(postorder))

\* break instead of continue: the rest of the snapshot is not walked
NoMatchBreak ==
    /\ pc = "instructions"
    /\ instr[Head(postorder)].op = "all-reduce"
    /\ ~ar_spec.matched
    /\ postorder' = << >>
    /\ pc' = LoopPc(postorder')
    /\ UNCHANGED << config, fusion, instr, live, root, status, ret,
                    next_channel_id, changed, computations, computation, cur,
                    runs, pre, log >>
    /\ walk' = Submitted(Head(postorder))

\* the test is inverted: the matched all-reduce is the one passed over
NoMatchInverted ==
    /\ pc = "instructions"
    /\ instr[Head(postorder)].op = "all-reduce"
    /\ ar_spec.matched
    /\ postorder' = Tail(postorder)
    /\ pc' = LoopPc(postorder')
    /\ UNCHANGED << config, fusion, instr, live, root, status, ret,
                    next_channel_id, changed, computations, computation, cur,
                    runs, pre, log >>
    /\ walk' = Submitted(Head(postorder))

\* if (!ar_spec) continue;
NoMatch ==
    /\ pc = "instructions"
    /\ instr[Head(postorder)].op = "all-reduce"
    /\ ~ar_spec.matched
    /\ postorder' = Tail(postorder)
    /\ pc' = LoopPc(postorder')
    /\ UNCHANGED << config, fusion, instr, live, root, status, ret,
                    next_channel_id, changed, computations, computation, cur,
                    runs, pre, log >>
    /\ walk' = Submitted(Head(postorder))

\* TF_RET_CHECK(scatter_shape.dimensions(split_dim) % group_size == 0)
SplitDimDivisible(shape, spec) ==
    shape[spec.split_dim + 1] % spec.group_size = 0

\* scatter_shape: the shape of the all-reduce, the split dimension divided
\* by the group size
ScatterShape(shape, spec) ==
    [ shape EXCEPT ![spec.split_dim + 1] =
                     shape[spec.split_dim + 1] \div spec.group_size ]

\* the channel id of the reduce-scatter: next_channel_id when the
\* all-reduce has one, none (0) otherwise
NewChannelId(a, next) == IF a.channel_id # 0 THEN next ELSE 0

\* the counter is left where it was
AfterMintNoIncrement(a, next) == next

\* next_channel_id++ when an id was minted
AfterMint(a, next) == IF a.channel_id # 0 THEN next + 1 ELSE next

\* dimension 0 whatever the split dimension is
ScatterDimensionZero(spec) == 0

\* the scatter dimension handed to CreateAllReduceScatter
ScatterDimension(spec) == spec.split_dim

\* the reduce-scatter is built without the constrain_layout flag of the
\* all-reduce
CreateAllReduceScatterNoLayout(a, spec, channel_id) ==
    [ Inst("all-reduce-scatter", a.comp, ScatterShape(a.shape, spec), a.operands)
      EXCEPT !.to_apply = a.to_apply,
             !.replica_groups = a.replica_groups,
             !.channel_id = channel_id,
             !.use_global_device_ids = a.use_global_device_ids,
             !.scatter_dimension = ScatterDimension(spec) ]

\* HloInstruction::CreateAllReduceScatter(scatter_shape, ar->operands(),
\*   ar->to_apply(), ar->replica_groups(), ar->constrain_layout(),
\*   channel_id, ar->use_global_device_ids(), ar_spec->split_dim)
CreateAllReduceScatter(a, spec, channel_id) ==
    [ Inst("all-reduce-scatter", a.comp, ScatterShape(a.shape, spec), a.operands)
      EXCEPT !.to_apply = a.to_apply,
             !.replica_groups = a.replica_groups,
             !.constrain_layout = a.constrain_layout,
             !.channel_id = channel_id,
             !.use_global_device_ids = a.use_global_device_ids,
             !.scatter_dimension = ScatterDimension(spec) ]

\* if (ds->operand(0) != ar) reshape = ds->mutable_operand(0);
InterveningReshape(I, d, a) ==
    IF I[d].operands[1] # a THEN I[d].operands[1] ELSE 0

\* the new reshape is given the shape of the reshape it stands in for
CreateReshapeOldShape(I, d, operand) ==
    Inst("reshape", I[d].comp, I[I[d].operands[1]].shape, << operand >>)

\* HloInstruction::CreateReshape(ds->shape(), result)
CreateReshape(I, d, operand) ==
    Inst("reshape", I[d].comp, I[d].shape, << operand >>)

\* the operand slots << user, k >> that hold instruction i
Uses(I, L, i) ==
    UNION { { << u, k >> : k \in { x \in DOMAIN I[u].operands :
                                      I[u].operands[x] = i } } : u \in L }

\* lines 50-83: the match is accepted, the reduce-scatter (and the reshape
\* on top of it) is added to the computation
BeginRewrite ==
    /\ pc = "instructions"
    /\ instr[Head(postorder)].op = "all-reduce"
    /\ ar_spec.matched
    /\ LET a == Head(postorder)
           d == ar_spec.dynamic_slice
           new == Len(instr) + 1
           channel_id == NewChannelId(instr[a], next_channel_id)
           created == CreateAllReduceScatter(instr[a], ar_spec, channel_id)
           rs == InterveningReshape(instr, d, a)
       IN  IF ~SplitDimDivisible(instr[a].shape, ar_spec)
           THEN /\ status' = "error"
                /\ pc' = "done"
                /\ cur' = [ NoRewrite(Module) EXCEPT !.ar = a, !.ds = d ]
                /\ UNCHANGED << instr, live, next_channel_id, log >>
           ELSE /\ next_channel_id' = AfterMint(instr[a], next_channel_id)
                /\ instr' = IF rs # 0
                            THEN instr \o << created, CreateReshape(instr, d, new) >>
                            ELSE Append(instr, created)
                /\ live' = live \cup (IF rs # 0 THEN {new, new + 1} ELSE {new})
                /\ cur' = [ ar |-> a, ds |-> d, ars |-> new,
                            result |-> IF rs # 0 THEN new + 1 ELSE new,
                            reshape |-> rs, before |-> Module ]
                /\ log' = Append(log,
                      [ run |-> runs, ar |-> a, ds |-> d, reshape |-> rs,
                        ars |-> new,
                        result |-> IF rs # 0 THEN new + 1 ELSE new,
                        ar_inst |-> instr[a], ds_inst |-> instr[d],
                        ds_uses |-> Uses(instr, live, d),
                        ds_was_root |-> root[instr[d].comp] = d,
                        spec |-> ar_spec,
                        in_use |-> ChannelIds(pre.instr, pre.live),
                        steps |-> << >>, done |-> FALSE ])
                /\ pc' = "replace"
                /\ UNCHANGED status
    /\ UNCHANGED << config, fusion, root, ret, changed, computations,
                    computation, postorder, runs, pre >>
    /\ walk' = Submitted(Head(postorder))

\* the all-reduce is removed right after the uses were replaced
StepAfterArFirst(step, reshape) ==
    CASE step = "replace"        -> "remove_ar"
      [] step = "remove_ds"      -> IF reshape # 0 THEN "remove_reshape"
                                    ELSE "remove_ar"
      [] step = "remove_reshape" -> "remove_ar"

\* lines 88-93: the statement that follows step; reshape is the
\* intervening reshape (0: nullptr)
StepAfter(step, reshape) ==
    CASE step = "replace"        -> "remove_ds"
      [] step = "remove_ds"      -> IF reshape # 0 THEN "remove_reshape"
                                    ELSE "remove_ar"
      [] step = "remove_reshape" -> "remove_ar"

\* the call made by the rewrite in flight is written to its log entry
Logged(step) == [ log EXCEPT ![Len(log)].steps = Append(@, step) ]

\* TF_RETURN_IF_ERROR(ds->ReplaceAllUsesWith(result));
ReplaceUses ==
    /\ pc = "replace"
    /\ IF Compatible(instr[cur.ds].shape, instr[cur.result].shape)
       THEN /\ instr' = ReplaceOperands(instr, live, cur.ds, cur.result)
            /\ root' = ReplaceRoot(root, cur.ds, cur.result)
            /\ log' = Logged("replace")
            /\ pc' = StepAfter("replace", cur.reshape)
            /\ UNCHANGED status
       ELSE /\ status' = "error"
            /\ pc' = "done"
            /\ log' = Logged("replace")
            /\ UNCHANGED << instr, root >>
    /\ UNCHANGED << config, fusion, live, ret, next_channel_id, changed,
                    computations, computation, postorder, cur, runs, pre >>
    /\ walk' = Stepped

\* TF_RETURN_IF_ERROR(computation->RemoveInstruction(ds));
RemoveDs ==
    /\ pc = "remove_ds"
    /\ IF CanRemove(instr, live, root, fusion, cur.ds)
       THEN /\ instr' = Detach(instr, cur.ds)
            /\ live' = live \ {cur.ds}
            /\ log' = Logged("remove_ds")
            /\ pc' = StepAfter("remove_ds", cur.reshape)
            /\ UNCHANGED status
       ELSE /\ status' = "error"
            /\ pc' = "done"
            /\ log' = Logged("remove_ds")
            /\ UNCHANGED << instr, live >>
    /\ UNCHANGED << config, fusion, root, ret, next_channel_id, changed,
                    computations, computation, postorder, cur, runs, pre >>
    /\ walk' = Stepped

\* if (reshape) TF_RETURN_IF_ERROR(computation->RemoveInstruction(reshape));
RemoveReshape ==
    /\ pc = "remove_reshape"
    /\ IF CanRemove(instr, live, root, fusion, cur.reshape)
       THEN /\ instr' = Detach(instr, cur.reshape)
            /\ live' = live \ {cur.reshape}
            /\ log' = Logged("remove_reshape")
            /\ pc' = StepAfter("remove_reshape", cur.reshape)
            /\ UNCHANGED status
       ELSE /\ status' = "error"
            /\ pc' = "done"
            /\ log' = Logged("remove_reshape")
            /\ UNCHANGED << instr, live >>
    /\ UNCHANGED << config, fusion, root, ret, next_channel_id, changed,
                    computations, computation, postorder, cur, runs, pre >>
    /\ walk' = Stepped

\* changed keeps the value it had
ChangedStale == changed

\* changed = true;
ChangedAfterRewrite == TRUE

\* the walk does not move on after the rewrite: the all-reduce that was
\* removed is the next instruction looked at
RemoveArRevisit ==
    /\ pc = "remove_ar"
    /\ IF CanRemove(instr, live, root, fusion, cur.ar)
       THEN LET after == RemoveUnused(instr, live, root, fusion,
                                      << cur.ar >>, cur.ar)
            IN  /\ instr' = after.instr
                /\ live' = after.live
                /\ log' = [ Logged("remove_ar") EXCEPT ![Len(log)].done = TRUE ]
                /\ changed' = ChangedAfterRewrite
                /\ pc' = LoopPc(postorder)
                /\ UNCHANGED << status, postorder >>
       ELSE /\ status' = "error"
            /\ pc' = "done"
            /\ log' = Logged("remove_ar")
            /\ UNCHANGED << instr, live, changed, postorder >>
    /\ UNCHANGED << config, fusion, root, ret, next_channel_id, computations,
                    computation, cur, runs, pre >>
    /\ walk' = Stepped

\* TF_RETURN_IF_ERROR(computation->RemoveInstructionAndUnusedOperands(ar));
\* changed = true;
RemoveAr ==
    /\ pc = "remove_ar"
    /\ IF CanRemove(instr, live, root, fusion, cur.ar)
       THEN LET after == RemoveUnused(instr, live, root, fusion,
                                      << cur.ar >>, cur.ar)
            IN  /\ instr' = after.instr
                /\ live' = after.live
                /\ log' = [ Logged("remove_ar") EXCEPT ![Len(log)].done = TRUE ]
                /\ changed' = ChangedAfterRewrite
                /\ postorder' = Tail(postorder)
                /\ pc' = LoopPc(postorder')
                /\ UNCHANGED status
       ELSE /\ status' = "error"
            /\ pc' = "done"
            /\ log' = Logged("remove_ar")
            /\ UNCHANGED << instr, live, changed, postorder >>
    /\ UNCHANGED << config, fusion, root, ret, next_channel_id, computations,
                    computation, cur, runs, pre >>
    /\ walk' = Stepped

Next ==
    \/ StartRun
    \/ NextComputation
    \/ SkipNonAllReduce
    \/ NoMatch
    \/ BeginRewrite
    \/ ReplaceUses
    \/ RemoveDs
    \/ RemoveReshape
    \/ RemoveAr
    \/ Finish

Spec == Init /\ [][Next]_vars

-----------------------------------------------------------------------------
(* Properties.                                                             *)

Entries == { log[k] : k \in DOMAIN log }

\* the dimension (1-based) of the slice of entry e that is split, and the
\* shape the slice was taken from
SliceSource(e) == IF e.reshape # 0 THEN instr[e.reshape].shape ELSE e.ar_inst.shape

SliceDim(e) == CHOOSE j \in DOMAIN e.ds_inst.shape : e.ds_inst.shape[j] # SliceSource(e)[j]

WrongOffsetsTable == << 0, 1, 2, 3, 4, 5, 6, 8 >>

HasWrongOffsetsTable ==
    \E i \in DOMAIN instr :
        /\ instr[i].op = "dynamic-slice"
        /\ \E j \in DOMAIN instr[i].offsets :
               instr[i].offsets[j].table = WrongOffsetsTable

\* C1: an all-reduce + dynamic-slice pair is rewritten only if on every
\* legal device the start offset of the slice on the split dimension is
\* rank(device) * shard size; a module with the offset table
\* {0,1,2,3,4,5,6,8} is never rewritten.
C1_RewriteOnlyIfOffsetIsRankTimesShard ==
    /\ \A e \in Entries :
         \A d \in LegalDevices(e.ar_inst, config) :
             EvalOffset(e.ds_inst.offsets[SliceDim(e)], d)
               = DeviceRank(e.ar_inst, config, d) * e.ds_inst.shape[SliceDim(e)]
    /\ HasWrongOffsetsTable => (log = << >> /\ Module = pre)

\* a rewrite of groups that are not listed in id order, keyed by a table
C1_Witness ==
    \E e \in Entries :
        /\ e.done
        /\ e.ar_inst.replica_groups = Subgroups
        /\ e.ds_inst.offsets[SliceDim(e)].kind = "twolevel"

\* C2: the channel id of a reduce-scatter made from an all-reduce with a
\* channel id is greater than every channel id in use before the run,
\* is not the id of the all-reduce and differs from the id of every other
\* reduce-scatter made in the same run.
C2_ChannelFreshness ==
    \A k \in DOMAIN log :
        LET e == log[k]
        IN  e.ar_inst.channel_id # 0 =>
              /\ instr[e.ars].channel_id # 0
              /\ \A c \in e.in_use : instr[e.ars].channel_id > c
              /\ instr[e.ars].channel_id # e.ar_inst.channel_id
              /\ \A l \in DOMAIN log :
                     (l # k /\ log[l].run = e.run /\ log[l].ar_inst.channel_id # 0)
                       => instr[log[l].ars].channel_id # instr[e.ars].channel_id

\* two reduce-scatters with channel ids made in one run
C2_Witness ==
    \E k, l \in DOMAIN log :
        /\ k # l
        /\ log[k].run = log[l].run
        /\ log[k].done /\ log[l].done
        /\ log[k].ar_inst.channel_id # 0
        /\ log[l].ar_inst.channel_id # 0

NoAllReduceMatches(m) ==
    \A a \in m.live :
        m.instr[a].op = "all-reduce"
          => ~MatchAllReduceScatter(m.instr, m.live, a, config).matched

\* C3: when the matcher returns no match for an all-reduce the step leaves
\* the instructions, the operand edges, the roots and the channel counter
\* as they are, raises no error and goes to the next instruction of the
\* snapshot; when no all-reduce of the module matches, the module after Run
\* is the module before.
C3_NonMatchLeavesGraphUntouched ==
    /\ [][ ( /\ pc = "instructions"
             /\ instr[Head(postorder)].op = "all-reduce"
             /\ ~MatchAllReduceScatter(instr, live, Head(postorder), config).matched )
           => ( /\ instr' = instr
                /\ live' = live
                /\ root' = root
                /\ next_channel_id' = next_channel_id
                /\ log' = log
                /\ status' = "ok"
                /\ postorder' = Tail(postorder)
                /\ pc' \in {"instructions", "computations"} ) ]_vars
    /\ []( (pc = "done" /\ NoAllReduceMatches(pre))
             => (status = "ok" /\ Module = pre /\ ~ret) )

\* Run has ended on the module of SubgroupsGlobalsNonOrthogonalReplicas
C3_Witness ==
    /\ pc = "done"
    /\ NoAllReduceMatches(pre)
    /\ \E a \in live :
           /\ instr[a].op = "all-reduce"
           /\ instr[a].replica_groups = << << 1, 3, 2, 0 >>, << 7, 5, 6, 4 >> >>

\* C4: a Run that ends ok returns true iff an all-reduce of a non-fusion
\* computation was rewritten during it.
C4_ResultIffRewritten ==
    (pc = "done" /\ status = "ok") =>
        /\ ret <=> \E e \in Entries :
                      e.run = runs /\ e.done /\ ~fusion[e.ar_inst.comp]
                      /\ e.ar \notin live
                      /\ instr[e.ars].op = "all-reduce-scatter"
        /\ ~ret <=> \A a \in pre.live :
                      (pre.instr[a].op = "all-reduce" /\ ~fusion[pre.instr[a].comp])
                        => \A e \in Entries : ~(e.run = runs /\ e.ar = a)

\* a Run that returned true and one that returned false
C4_Witness ==
    /\ pc = "done" /\ status = "ok" /\ runs = 2 /\ ~ret
    /\ \E e \in Entries : e.run = 1 /\ e.done

\* the rewrite begun last
Last == log[Len(log)]

\* participants of one group of collective a: the ranks its devices have
Participants(a) == Cardinality({ DeviceRank(a, config, d) : d \in LegalDevices(a, config) })

\* C5: after the rewrite of an all-reduce whose slice reads it directly the
\* reduce-scatter has the one dimension on which slice and all-reduce
\* differ as scatter dimension, its shape is the shape of the all-reduce
\* with that dimension divided by the group size and is the shape of the
\* slice, it stands in every operand slot the slice stood in (and is the
\* root when the slice was), and the all-reduce has left the computation.
C5_DirectSliceRewrite ==
    (log # << >> /\ Last.done /\ Last.reshape = 0) =>
        LET e == Last
            x == instr[e.ars]
            dims == { j \in DOMAIN e.ar_inst.shape :
                        e.ds_inst.shape[j] # e.ar_inst.shape[j] }
        IN  /\ x.op = "all-reduce-scatter"
            /\ dims = { x.scatter_dimension + 1 }
            /\ x.shape = [ j \in DOMAIN e.ar_inst.shape |->
                             IF j \in dims
                             THEN e.ar_inst.shape[j] \div Participants(e.ar_inst)
                             ELSE e.ar_inst.shape[j] ]
            /\ \A j \in dims : e.ar_inst.shape[j] % Participants(e.ar_inst) = 0
            /\ x.shape = e.ds_inst.shape
            /\ e.ars \in live
            /\ \A u \in e.ds_uses : instr[u[1]].operands[u[2]] = e.ars
            /\ e.ds_was_root => root[e.ds_inst.comp] = e.ars
            /\ e.ds \notin live
            /\ e.ar \notin live

\* AllReplicasDim2 rewritten: the last dimension is the scatter dimension
C5_Witness ==
    /\ log # << >> /\ Last.done /\ Last.reshape = 0
    /\ instr[Last.ars].scatter_dimension = 2
    /\ Last.ds_was_root

\* a chain: the slice that was replaced had a user
C5_WitnessUser ==
    /\ log # << >> /\ Last.done /\ Last.reshape = 0
    /\ Last.ds_uses # {}

\* C6: when the slice reads the all-reduce through a reshape, a new reshape
\* of the reduce-scatter with the shape of the slice is made and every
\* former use of the slice (and the root) refers to it; without a reshape
\* no reshape is made and the former uses refer to the reduce-scatter; the
\* former users see an operand of the shape they saw before.
C6_ReshapeResynthesis ==
    \A k \in DOMAIN log :
        LET e == log[k]
            added == IF k = Len(log) THEN DOMAIN instr \ DOMAIN cur.before.instr
                     ELSE {}
        IN  /\ e.reshape # 0 =>
                /\ e.result # e.ars
                /\ instr[e.result].op = "reshape"
                /\ instr[e.result].operands = << e.ars >>
                /\ instr[e.result].shape = e.ds_inst.shape
                /\ k = Len(log) => added = { e.ars, e.result }
            /\ e.reshape = 0 =>
                /\ e.result = e.ars
                /\ k = Len(log) => added = { e.ars }
            /\ instr[e.ars].op = "all-reduce-scatter"
            /\ (k = Len(log) /\ e.done) =>
                /\ \A u \in e.ds_uses : instr[u[1]].operands[u[2]] = e.result
                /\ e.ds_was_root => root[e.ds_inst.comp] = e.result
                /\ instr[e.result].shape = e.ds_inst.shape

\* AllReplicasWithReshapeSplitDimModified rewritten
C6_Witness ==
    /\ log # << >> /\ Last.done /\ Last.reshape # 0
    /\ Last.ds_was_root
    /\ Last.ar_inst.shape = << 336, 1024 >>

\* C7: after a Run that ended ok no all-reduce left in the module matches;
\* a further Run rewrites nothing, returns false and leaves the module as
\* it was; when the slice of a matched all-reduce feeds another matched
\* all-reduce, both are rewritten by the first Run.
C7_Idempotence ==
    (pc = "done" /\ status = "ok") =>
        /\ NoAllReduceMatches(Module)
        /\ runs >= 2 =>
             /\ ~ret
             /\ Module = pre
             /\ \A e \in Entries : e.run < 2
        /\ runs = 1 =>
             \A a1, a2 \in pre.live :
                LET m1 == MatchAllReduceScatter(pre.instr, pre.live, a1, config)
                    m2 == MatchAllReduceScatter(pre.instr, pre.live, a2, config)
                IN  ( /\ pre.instr[a1].op = "all-reduce"
                      /\ pre.instr[a2].op = "all-reduce"
                      /\ m1.matched /\ m2.matched
                      /\ m1.dynamic_slice \in Range(pre.instr[a2].operands) )
                    => \A a \in {a1, a2} :
                          \E e \in Entries : e.ar = a /\ e.run = 1 /\ e.done

\* the second Run has ended on a module in which the first Run rewrote two
\* all-reduces, the second one fed by the slice of the first
C7_Witness ==
    /\ pc = "done" /\ status = "ok" /\ runs = 2
    /\ \E e, f \in Entries :
          /\ e.done /\ f.done
          /\ e.run = 1 /\ f.run = 1
          /\ << f.ar, 1 >> \in e.ds_uses

\* the all-reduces of module m with use_global_device_ids whose slice is
\* taken at table[partition-id] * shard size
PartitionKeyed(m) ==
    { a \in m.live :
        /\ m.instr[a].op = "all-reduce"
        /\ m.instr[a].use_global_device_ids
        /\ SliceUser(m.instr, m.live, a) # 0
        /\ LET d == m.instr[SliceUser(m.instr, m.live, a)]
               dims == { j \in DOMAIN d.shape : d.shape[j] # m.instr[a].shape[j] }
           IN  /\ d.operands = << a >>
               /\ Cardinality(dims) = 1
               /\ \A j \in dims :
                    /\ d.offsets[j].kind = "lookup"
                    /\ d.offsets[j].idx = "pid"
                    /\ d.offsets[j].mul = d.shape[j]
                    /\ m.instr[a].shape[j] = d.shape[j] * Len(m.instr[a].replica_groups[1]) }

\* the start-index table of the slice of all-reduce a of module m
PidTableOf(m, a) ==
    LET d == m.instr[SliceUser(m.instr, m.live, a)]
        j == CHOOSE x \in DOMAIN d.shape : d.shape[x] # m.instr[a].shape[x]
    IN  d.offsets[j].table

\* every device has a rank and devices with the same partition id have
\* the same rank
SamePartitionToRank(a) ==
    \A d1, d2 \in Devices(config) :
        /\ DeviceRank(a, config, d1) # -1
        /\ d1[2] = d2[2] => DeviceRank(a, config, d1) = DeviceRank(a, config, d2)

TableHoldsRanks(a, table) ==
    /\ Len(table) = config.num_partitions
    /\ \A d \in Devices(config) : table[d[2] + 1] = DeviceRank(a, config, d)

OrthogonalGroups == << << 1, 3, 2, 0 >>, << 5, 7, 6, 4 >> >>

NonOrthogonalGroups == << << 1, 3, 2, 0 >>, << 7, 5, 6, 4 >> >>

\* C8: an all-reduce with use_global_device_ids whose slice offset is
\* table[partition id] * shard size is rewritten iff every replica group
\* induces the same partition -> rank mapping and the table holds it;
\* {{1,3,2,0},{5,7,6,4}} with {3,0,2,1} is rewritten,
\* {{1,3,2,0},{7,5,6,4}} with {3,0,2,1} is not and Run returns false.
C8_OrthogonalityRule ==
    (pc = "done" /\ runs = 1) =>
        \A a \in PartitionKeyed(pre) :
            LET x == pre.instr[a]
                rewritten == \E e \in Entries : e.ar = a /\ e.done
            IN  /\ rewritten <=>
                     ( /\ SamePartitionToRank(x)
                       /\ TableHoldsRanks(x, PidTableOf(pre, a)) )
                /\ (x.replica_groups = OrthogonalGroups
                    /\ PidTableOf(pre, a) = << 3, 0, 2, 1 >>) => (rewritten /\ ret)
                /\ (x.replica_groups = NonOrthogonalGroups
                    /\ PidTableOf(pre, a) = << 3, 0, 2, 1 >>) => (~rewritten /\ ~ret)

\* SubgroupsGlobalsOrthogonalReplicas rewritten
C8_Witness ==
    /\ pc = "done" /\ runs = 1 /\ ret
    /\ \E a \in PartitionKeyed(pre) :
          /\ pre.instr[a].replica_groups = OrthogonalGroups
          /\ PidTableOf(pre, a) = << 3, 0, 2, 1 >>

\* C9 as claimed: when Run returns an error for a candidate, the module is
\* the module as it was before the candidate: nothing added for it, none of
\* its instructions removed or rewired.
C9_NoPartialApplication ==
    status = "error" => Module = cur.before

RewriteSteps(e) ==
    IF e.reshape # 0
    THEN << "replace", "remove_ds", "remove_reshape", "remove_ar" >>
    ELSE << "replace", "remove_ds", "remove_ar" >>

IsPrefix(s, t) == Len(s) <= Len(t) /\ \A k \in DOMAIN s : s[k] = t[k]

\* C10: the calls of one rewrite are made in the order replace the uses of
\* the slice, remove the slice, remove the intervening reshape (if any),
\* remove the all-reduce; an instruction that is removed has no user and
\* is not the root at that moment; no live instruction has a removed
\* instruction as an operand.
C10_DetachThenRemove ==
    /\ [](\A e \in Entries :
            /\ IsPrefix(e.steps, RewriteSteps(e))
            /\ e.done => e.steps = RewriteSteps(e))
    /\ [][ \A i \in live \ live' :
             /\ i \in {cur.ds, cur.reshape, cur.ar}
             /\ Users(instr, live, i) = {}
             /\ root[instr[i].comp] # i ]_vars
    /\ [](\A j \in live : Range(instr[j].operands) \subseteq live)
    /\ [](\A c \in DOMAIN root : root[c] \in live)

\* a rewrite through a reshape has been completed
C10_Witness ==
    /\ log # << >> /\ Last.done
    /\ Last.steps = << "replace", "remove_ds", "remove_reshape", "remove_ar" >>
    /\ {Last.ds, Last.reshape, Last.ar} \cap live = {}

\* C11: every reduce-scatter that Run created has the operands (in their
\* order), the reduction function, the replica groups, the constrain_layout
\* flag and the use_global_device_ids flag of the all-reduce it replaces, and
\* has a channel id exactly when that all-reduce had one; once the all-reduce
\* and its unused operands were removed, the operands of the all-reduce are
\* still in the computation
C11_FieldPreservation ==
    \A e \in Entries :
        /\ e.ars \in live =>
             /\ instr[e.ars].op = "all-reduce-scatter"
             /\ instr[e.ars].operands = e.ar_inst.operands
             /\ instr[e.ars].to_apply = e.ar_inst.to_apply
             /\ instr[e.ars].replica_groups = e.ar_inst.replica_groups
             /\ instr[e.ars].constrain_layout = e.ar_inst.constrain_layout
             /\ instr[e.ars].use_global_device_ids
                  = e.ar_inst.use_global_device_ids
             /\ (instr[e.ars].channel_id # 0) <=> (e.ar_inst.channel_id # 0)
        /\ e.done =>
             /\ e.ars \in live
             /\ e.ar \notin live
             /\ Range(e.ar_inst.operands) \subseteq live
             /\ \A o \in Range(e.ar_inst.operands) :
                    instr[o].comp = e.ar_inst.comp

\* SubgroupsGlobals with a constrained layout was rewritten: groups, channel
\* id and both flags of the all-reduce are the ones that are not the default
C11_Witness ==
    \E e \in Entries :
        /\ e.done
        /\ e.ar_inst.constrain_layout
        /\ e.ar_inst.use_global_device_ids
        /\ e.ar_inst.channel_id # 0
        /\ e.ar_inst.replica_groups = Subgroups
        /\ e.ar_inst.operands # << >>

\* a chain: the operand of the removed all-reduce is an instruction that only
\* the all-reduce used, and it is kept for the reduce-scatter
C11_WitnessOperandKept ==
    \E e \in Entries :
        /\ e.done
        /\ \E o \in Range(e.ar_inst.operands) :
              /\ instr[o].op # "parameter"
              /\ Users(instr, live, o) = {e.ars}

\* C12: the walk of a snapshot.
Walks == { walk[k] : k \in DOMAIN walk }

\* the all-reduces of a snapshot, in the order of the snapshot
AllReducesOf(order) ==
    SelectSeq(order, LAMBDA h : instr[h].op = "all-reduce")

SubmittedOf(w) == [ k \in DOMAIN w.submitted |-> w.submitted[k].inst ]

\* the walk of snapshot k went through to the end of the list
WalkedThrough(k) ==
    \/ k < Len(walk)
    \/ status = "ok" /\ pc \in {"computations", "done"}

====
